---- MODULE Spec2Model ----
(***************************************************************************)
(* Model of ImageGenerationAdapterOpenAI (src/index.ts): the constructor,  *)
(* validate, the three capability lookups, generate and the private        *)
(* generateOrEditImage with its await points.                              *)
(*                                                                         *)
(* Representation of JavaScript values:                                    *)
(*   - a string is a sequence of text fragments whose concatenation is the *)
(*     string; a string the code inspects character by character           *)
(*     (startsWith, split, base64) has one character per fragment;         *)
(*   - an object is a record; an omitted property is a key that is not in  *)
(*     the record's DOMAIN;                                                *)
(*   - a value that may be undefined is a sequence of length 0 (undefined) *)
(*     or 1 (the value);                                                   *)
(*   - a Buffer is a sequence of bytes 0..255.                             *)
(***************************************************************************)
EXTENDS Integers, Sequences, FiniteSets, TLC

VARIABLES options, probe, pc, args, local, http, sniff, result

vars == <<options, probe, pc, args, local, http, sniff, result>>

(***************************************************************************)
(* Bounds of the model.                                                    *)
(***************************************************************************)
MaxFiles == 2
MaxItems == 2
MaxCalls == 2

AllCalls == 1..MaxCalls

SeqsUpTo(S, k) == UNION {[1..m -> S] : m \in 0..k}

Undefined == <<>>
Defined(v) == <<v>>

(***************************************************************************)
(* Strings used by the code and by the inputs.                             *)
(***************************************************************************)
GptImage1 == <<"gpt-image-1">>
DallE2 == <<"dall-e-2">>
DallE3 == <<"dall-e-3">>
OtherModel == <<"gpt-image-1-mini">>

Digits == <<"0", "1", "2", "3", "4", "5", "6", "7", "8", "9">>

\* Number.prototype.toString for a non-negative integer (src/index.ts:147).
RECURSIVE NumberToString(_)
NumberToString(k) ==
  IF k < 10 THEN <<Digits[k + 1]>>
  ELSE NumberToString(k \div 10) \o <<Digits[(k % 10) + 1]>>

\* String.prototype.startsWith.
StartsWith(s, prefix) ==
  /\ Len(s) >= Len(prefix)
  /\ SubSeq(s, 1, Len(prefix)) = prefix

\* Position of the first comma at or after position i, 0 when there is none.
RECURSIVE CommaFrom(_, _)
CommaFrom(s, i) ==
  IF i > Len(s) THEN 0
  ELSE IF s[i] = "," THEN i
  ELSE CommaFrom(s, i + 1)

\* s.split(',')[1]: the text between the first and the second comma,
\* undefined when s holds no comma.
SplitComma1(s) ==
  LET c1 == CommaFrom(s, 1) IN
  IF c1 = 0 THEN Undefined
  ELSE LET c2 == CommaFrom(s, c1 + 1) IN
       Defined(SubSeq(s, c1 + 1, IF c2 = 0 THEN Len(s) ELSE c2 - 1))

(***************************************************************************)
(* Base64, as Buffer.from(s, 'base64') and buf.toString('base64') compute  *)
(* it, for text over the standard alphabet with '=' padding.               *)
(***************************************************************************)
B64Alphabet ==
  <<"A", "B", "C", "D", "E", "F", "G", "H", "I", "J", "K", "L", "M",
    "N", "O", "P", "Q", "R", "S", "T", "U", "V", "W", "X", "Y", "Z",
    "a", "b", "c", "d", "e", "f", "g", "h", "i", "j", "k", "l", "m",
    "n", "o", "p", "q", "r", "s", "t", "u", "v", "w", "x", "y", "z",
    "0", "1", "2", "3", "4", "5", "6", "7", "8", "9", "+", "/">>

B64Value(ch) == (CHOOSE i \in 1..64 : B64Alphabet[i] = ch) - 1

\* The text before the first '='.
RECURSIVE B64Payload(_)
B64Payload(s) ==
  IF s = <<>> \/ Head(s) = "=" THEN <<>>
  ELSE <<Head(s)>> \o B64Payload(Tail(s))

RECURSIVE B64DecodeGroups(_)
B64DecodeGroups(s) ==
  IF Len(s) < 2 THEN <<>>
  ELSE LET a == B64Value(s[1])
           b == B64Value(s[2])
           b1 == (a * 4) + (b \div 16)
       IN IF Len(s) = 2 THEN <<b1>>
          ELSE LET c == B64Value(s[3])
                   b2 == ((b % 16) * 16) + (c \div 4)
               IN IF Len(s) = 3 THEN <<b1, b2>>
                  ELSE LET d == B64Value(s[4])
                           b3 == ((c % 4) * 64) + d
                       IN <<b1, b2, b3>> \o B64DecodeGroups(SubSeq(s, 5, Len(s)))

\* Buffer.from(s, 'base64')
B64Decode(s) == B64DecodeGroups(B64Payload(s))

\* buf.toString('base64')
RECURSIVE B64Encode(_)
B64Encode(bytes) ==
  IF bytes = <<>> THEN <<>>
  ELSE LET x == bytes[1]
           c1 == B64Alphabet[(x \div 4) + 1]
       IN IF Len(bytes) = 1
          THEN <<c1, B64Alphabet[((x % 4) * 16) + 1], "=", "=">>
          ELSE LET y == bytes[2]
                   c2 == B64Alphabet[((x % 4) * 16) + (y \div 16) + 1]
               IN IF Len(bytes) = 2
                  THEN <<c1, c2, B64Alphabet[((y % 16) * 4) + 1], "=">>
                  ELSE LET z == bytes[3]
                           c3 == B64Alphabet[((y % 16) * 4) + (z \div 64) + 1]
                           c4 == B64Alphabet[(z % 64) + 1]
                       IN <<c1, c2, c3, c4>> \o B64Encode(SubSeq(bytes, 4, Len(bytes)))

(***************************************************************************)
(* The adapter's options and the synchronous methods.                      *)
(***************************************************************************)
\* A JavaScript string is falsy exactly when it is empty.
Truthy(s) == s # <<>>

Has(obj, key) == key \in DOMAIN obj

\* A constructor that defaults an omitted model to the empty string.
ConstructorEmptyDefault(o) ==
  [k \in DOMAIN o \cup {"model"} |->
     IF k = "model"
     THEN IF Has(o, "model") THEN o.model ELSE <<>>
     ELSE o[k]]

\* constructor (src/index.ts:11-14): this.options.model = options.model || 'gpt-image-1'
Constructor(o) ==
  [k \in DOMAIN o \cup {"model"} |->
     IF k = "model"
     THEN IF Has(o, "model") /\ Truthy(o.model) THEN o.model ELSE GptImage1
     ELSE o[k]]

\* validate (src/index.ts:16-20): TRUE when it throws "API Key is required".
validateThrows(opts) ==
  ~(Has(opts, "openAiApiKey") /\ Truthy(opts.openAiApiKey))

\* outputImagesMaxCountSupported (src/index.ts:22-28); the function falls off
\* its end, returning undefined, for a model outside the table.
outputImagesMaxCountSupported(opts) ==
  IF opts.model = GptImage1 \/ opts.model = DallE2 THEN Defined(10)
  ELSE IF opts.model = DallE3 THEN Defined(1)
  ELSE Undefined

\* outputDimensionsSupported (src/index.ts:30-38)
outputDimensionsSupported(opts) ==
  IF opts.model = GptImage1
  THEN Defined(<< <<"1024x1024">>, <<"1536x1024">>, <<"1024x1536">>, <<"auto">> >>)
  ELSE IF opts.model = DallE2
  THEN Defined(<< <<"256x256">>, <<"512x512">>, <<"1024x1024">> >>)
  ELSE IF opts.model = DallE3
  THEN Defined(<< <<"1024x1024">>, <<"1792x1024">>, <<"1024x1792">> >>)
  ELSE Undefined

\* inputFileExtensionSupported (src/index.ts:40-47)
inputFileExtensionSupported(opts) ==
  IF opts.model = DallE2 THEN Defined(<< <<"png">> >>)
  ELSE IF opts.model = GptImage1 \/ opts.model = DallE3
  THEN Defined(<< <<"png">>, <<"jpg">>, <<"jpeg">> >>)
  ELSE Defined(<<>>)

\* The comparison n > max of src/index.ts:61; a comparison with undefined is
\* false.
JsGreater(k, maxOpt) == maxOpt # Undefined /\ k > maxOpt[1]

(***************************************************************************)
(* MIME sniffing.                                                          *)
(***************************************************************************)
\* fileTypeFromBuffer of the file-type package (src/index.ts:96), for the
\* signatures the inputs of this model use: GIF and JPEG; any other buffer
\* is not recognised.
fileTypeFromBuffer(bytes) ==
  IF Len(bytes) <= 1 THEN Undefined
  ELSE IF Len(bytes) >= 3 /\ SubSeq(bytes, 1, 3) = <<71, 73, 70>>
  THEN Defined([ext |-> <<"gif">>, mime |-> <<"image/gif">>])
  ELSE IF Len(bytes) >= 3 /\ SubSeq(bytes, 1, 3) = <<255, 216, 255>>
  THEN IF Len(bytes) >= 4 /\ bytes[4] = 247
       THEN Defined([ext |-> <<"jls">>, mime |-> <<"image/jls">>])
       ELSE Defined([ext |-> <<"jpg">>, mime |-> <<"image/jpeg">>])
  ELSE Undefined

\* guessMimeTypeByB64 (src/index.ts:93-99)
guessMimeTypeByB64(b64) ==
  LET binaryData == B64Decode(b64)
      fileType == fileTypeFromBuffer(binaryData)
  IN IF fileType # Undefined /\ Truthy(fileType[1].mime)
     THEN fileType[1].mime
     ELSE <<"application/octet-stream">>

\* The data URL built for one image of the edits response (src/index.ts:188).
EditDataURL(mime, b64) == <<"data:">> \o mime \o <<";base64,">> \o b64

(***************************************************************************)
(* Normalisation of the generations response (src/index.ts:131-142).       *)
(***************************************************************************)
\* A callback that prefers the base64 payload to the url.
GenItemURLPreferB64(item) ==
  IF Has(item, "b64_json") /\ Truthy(item.b64_json)
  THEN Defined(<<"data:image/png;base64,">> \o item.b64_json)
  ELSE IF Has(item, "url") /\ Truthy(item.url) THEN Defined(item.url)
  ELSE Undefined

\* The callback of images.map: the url, the png data URL, or null
\* (Undefined here).
GenItemURL(item) ==
  IF Has(item, "url") /\ Truthy(item.url) THEN Defined(item.url)
  ELSE IF Has(item, "b64_json") /\ Truthy(item.b64_json)
  THEN Defined(<<"data:image/png;base64,">> \o item.b64_json)
  ELSE Undefined

RECURSIVE DropNull(_)
\* .filter(url => url !== null)
DropNull(mapped) ==
  IF mapped = <<>> THEN <<>>
  ELSE IF Head(mapped) = Undefined THEN DropNull(Tail(mapped))
  ELSE <<Head(mapped)[1]>> \o DropNull(Tail(mapped))

\* response.data?.data ?? [], mapped and filtered.
GenImageURLs(data) ==
  LET images == IF Has(data, "data") THEN data.data ELSE <<>>
      mapped == [i \in 1..Len(images) |-> GenItemURL(images[i])]
  IN DropNull(mapped)

(***************************************************************************)
(* Request construction (src/index.ts:117-182).                            *)
(***************************************************************************)
Num(k) == [num |-> k]
Str(t) == [str |-> t]

GenerationsURL == <<"https://api.openai.com/v1/images/generations">>
EditsURL == <<"https://api.openai.com/v1/images/edits">>

\* `Bearer ${this.options.openAiApiKey}` (src/index.ts:118, 173)
Authorization(opts) ==
  <<"Bearer ">> \o (IF Has(opts, "openAiApiKey") THEN opts.openAiApiKey
                   ELSE <<"undefined">>)

\* this.options.extraParams as the list of its entries, in insertion order.
ExtraEntries(opts) ==
  IF Has(opts, "extraParams") THEN opts.extraParams ELSE <<>>

ExtraKeys(opts) ==
  {ExtraEntries(opts)[j].key : j \in 1..Len(ExtraEntries(opts))}

ExtraValue(opts, key) ==
  LET e == ExtraEntries(opts)
  IN e[CHOOSE j \in 1..Len(e) : e[j].key = key].value

\* { prompt, model, n, size, ...(this.options.extraParams || {}) }
\* (src/index.ts:127): a spread key replaces the field of the same name.
JsonBody(opts, prompt, n, size) ==
  LET base == [prompt |-> Str(prompt), model |-> Str(opts.model),
               n |-> Num(n), size |-> Str(size)]
  IN [k \in DOMAIN base \cup ExtraKeys(opts) |->
        IF k \in ExtraKeys(opts) THEN ExtraValue(opts, k) ELSE base[k]]

\* FormData.append(key, value) of a scalar: a number is sent as its decimal
\* text.
FormField(key, v) ==
  [name |-> key,
   value |-> IF Has(v, "num") THEN NumberToString(v.num) ELSE v.str]

\* The fields appended before the input files (src/index.ts:144-154).
FormFields(opts, prompt, n, size) ==
  << FormField("prompt", Str(prompt)),
     FormField("model", Str(opts.model)),
     FormField("n", Str(NumberToString(n))),
     FormField("size", Str(size)) >>
  \o [j \in 1..Len(ExtraEntries(opts)) |->
        FormField(ExtraEntries(opts)[j].key, ExtraEntries(opts)[j].value)]

\* A file part named from the zero-based index.
FilePartZeroBased(pos, buffer) ==
  [name |-> "image[]", buffer |-> buffer,
   filename |-> <<"image_">> \o NumberToString(pos - 1) \o <<".png">>,
   contentType |-> <<"image/png">>]

\* formData.append('image[]', buffer, { filename: `image_${i + 1}.png`,
\* contentType: 'image/png' }); pos is i + 1.
FilePart(pos, buffer) ==
  [name |-> "image[]", buffer |-> buffer,
   filename |-> <<"image_">> \o NumberToString(pos) \o <<".png">>,
   contentType |-> <<"image/png">>]

\* The buffer appended for a fetched file (src/index.ts:160-161).
FetchedBuffer(data) == B64Decode(B64Encode(data))

HttpPrefix == <<"h", "t", "t", "p">>
DataPrefix == <<"d", "a", "t", "a", ":">>

NoError == [name |-> "none", message |-> <<>>]

UnsupportedFileError(fileUrl) ==
  [name |-> "Error",
   message |-> <<"Unsupported file URL for attachment, it should be an absolute URL strating with http or a data URL, but got: ">> \o fileUrl]

\* Buffer.from(undefined, 'base64')
BufferFromUndefinedError ==
  [name |-> "TypeError",
   message |-> <<"The first argument must be of type string or an instance of Buffer, ArrayBuffer, or Array or an Array-like Object. Received undefined">>]

\* The input file loop (src/index.ts:156-170) from position pos (i + 1), run
\* up to its next await: a GET to wait for, the end of the list, or a throw.
RECURSIVE AttachFrom(_, _, _)
AttachFrom(files, pos, form) ==
  IF pos > Len(files)
  THEN [stop |-> "post", pos |-> pos, form |-> form, error |-> NoError]
  ELSE LET fileUrl == files[pos] IN
    IF StartsWith(fileUrl, HttpPrefix)
    THEN [stop |-> "get", pos |-> pos, form |-> form, error |-> NoError]
    ELSE IF StartsWith(fileUrl, DataPrefix)
    THEN LET base64Data == SplitComma1(fileUrl) IN
         IF base64Data = Undefined
         THEN [stop |-> "throw", pos |-> pos, form |-> form,
               error |-> BufferFromUndefinedError]
         ELSE AttachFrom(files, pos + 1,
                         Append(form, FilePart(pos, B64Decode(base64Data[1]))))
    ELSE [stop |-> "throw", pos |-> pos, form |-> form,
          error |-> UnsupportedFileError(fileUrl)]

(***************************************************************************)
(* Results of a call.                                                      *)
(***************************************************************************)
NoResult == [kind |-> "none"]
Returned(v) == [kind |-> "return", value |-> v]
Thrown(e) == [kind |-> "throw", name |-> e.name, message |-> e.message]

\* The error of src/index.ts:62.
MaxCountError(opts) ==
  [name |-> "Error",
   message |-> <<"For model \"">> \o opts.model
               \o <<"\", the maximum number of images is ">>
               \o (IF outputImagesMaxCountSupported(opts) = Undefined
                   THEN <<"undefined">>
                   ELSE NumberToString(outputImagesMaxCountSupported(opts)[1]))]

\* this.outputDimensionsSupported()[0] on an undefined list.
IndexUndefinedError ==
  [name |-> "TypeError",
   message |-> <<"Cannot read properties of undefined (reading '0')">>]

\* editResponse.data.data.map on a response without a data array.
MapUndefinedError ==
  [name |-> "TypeError",
   message |-> <<"Cannot read properties of undefined (reading 'map')">>]

\* JSON.stringify of a response object that refers to itself: the message
\* ends with the path of the cycle in that object.
CircularError(response) ==
  [name |-> "TypeError",
   message |-> <<"Converting circular structure to JSON">> \o response.cycle]

\* The value returned by the catch of src/index.ts:192-195 for an error whose
\* response, when there is one, can be serialised.
EditErrorValue(e) ==
  [error |-> <<"Error generating image: ">> \o e.message \o <<", ">>
             \o (IF Has(e, "response") THEN e.response.json
                 ELSE <<"undefined">>)]

\* The catch of src/index.ts:192-195: JSON.stringify(error.response) throws
\* on a circular response, and the error string is returned otherwise.
EditCatch(e) ==
  IF Has(e, "response") /\ e.response.circular
  THEN Thrown(CircularError(e.response))
  ELSE Returned(EditErrorValue(e))

(***************************************************************************)
(* Inputs: constructor options, generate parameters, provider responses.   *)
(***************************************************************************)
EmptyObject == [k \in {} |-> k]

OptField(key, opt) == IF opt = Undefined THEN EmptyObject ELSE key :> opt[1]

ApiKey == <<"sk-test">>

BenignExtra == <<[key |-> "quality", value |-> Str(<<"high">>)]>>
OverridingExtra ==
  <<[key |-> "quality", value |-> Str(<<"high">>)],
    [key |-> "n", value |-> Num(20)]>>

CtorModels ==
  {Undefined, Defined(GptImage1), Defined(DallE2), Defined(DallE3),
   Defined(OtherModel)}
CtorExtras == {Undefined, Defined(OverridingExtra)}

CtorObject(m, k, e) ==
  OptField("model", m) @@ OptField("openAiApiKey", k)
  @@ OptField("extraParams", e)

\* Every model with and without extraParams, and one adapter without API key.
CtorInputs ==
  {CtorObject(m, Defined(ApiKey), e) : m \in CtorModels, e \in CtorExtras}
  \cup {CtorObject(Undefined, Undefined, Undefined)}

CtorInputsSmall ==
  {CtorObject(m, Defined(ApiKey), e) :
     m \in {Undefined, Defined(DallE3)},
     e \in {Undefined, Defined(BenignExtra)}}

HttpFile == <<"h", "t", "t", "p", ":", "a">>
DataFile == <<"d", "a", "t", "a", ":", ",", "Q", "U", "J", "D">>
DataFileNoComma == <<"d", "a", "t", "a", ":", "x">>
FtpFile == <<"f", "t", "p", ":", "a">>

FileURLs == {HttpFile, DataFile, DataFileNoComma, FtpFile}

Prompt == <<"a cat">>
CallerSize == <<"512x512">>

ParamsObject(f, z, k) ==
  [prompt |-> Prompt] @@ OptField("inputFiles", f) @@ OptField("size", z)
  @@ OptField("n", k)

ParamsOver(files, sizes, counts) ==
  {ParamsObject(f, z, k) : f \in files, z \in sizes, k \in counts}

Params ==
  ParamsOver({Undefined} \cup {Defined(f) : f \in SeqsUpTo(FileURLs, MaxFiles)},
             {Undefined, Defined(CallerSize)},
             {Undefined, Defined(2), Defined(11)})

ParamsSmall ==
  ParamsOver({Undefined, Defined(<<HttpFile>>)},
             {Undefined},
             {Undefined, Defined(2)})

JpegB64 == <<"/", "9", "j", "/">>
PlainB64 == <<"Q", "U", "J", "D">>

ItemBoth == [url |-> <<"https://img/1">>, b64_json |-> JpegB64]
ItemPlain == [b64_json |-> PlainB64]
ItemNeither == [url |-> <<>>, revised_prompt |-> <<"a cat, sitting">>]

Items == {ItemBoth, ItemPlain, ItemNeither}

ResponsesOver(items, k) ==
  {[created |-> 1]} \cup {[created |-> 1, data |-> d] : d \in SeqsUpTo(items, k)}

Responses == ResponsesOver(Items, MaxItems)
ResponsesSmall == ResponsesOver({ItemBoth}, 1)

FetchBodies == {<<255, 216, 255>>, <<65, 66>>}
FetchBodiesSmall == {<<65, 66>>}

StatusError ==
  [name |-> "AxiosError",
   message |-> <<"Request failed with status code 400">>,
   response |-> [json |-> <<"{\"status\":400}">>, circular |-> FALSE]]
CircularStatusError ==
  [name |-> "AxiosError",
   message |-> <<"Request failed with status code 401">>,
   response |->
     [json |-> <<>>, circular |-> TRUE,
      cycle |-> <<"\n    --> starting at object with constructor 'Object'",
                  "\n    |     property 'request' -> object with constructor 'Object'",
                  "\n    --- property 'res' closes the circle">>]]
NetworkError == [name |-> "AxiosError", message |-> <<"Network Error">>]

AxiosErrors == {StatusError, CircularStatusError, NetworkError}
AxiosErrorsSmall == {NetworkError}

(***************************************************************************)
(* State of one generate call.                                             *)
(***************************************************************************)
\* probe holds the value returned by the last synchronous method call, until
\* the host starts a generate call.
NoProbe == [method |-> "none"]

NoArgs == [prompt |-> <<>>]
NoLocal ==
  [inputFiles |-> <<>>, n |-> 0, size |-> <<>>, pos |-> 0, form |-> <<>>,
   last |-> 0, rejected |-> FALSE]

GetRequest(fileUrl) == [method |-> "GET", url |-> fileUrl, status |-> "pending"]

GenerationsRequest(opts, prompt, n, size) ==
  [method |-> "POST", url |-> GenerationsURL,
   authorization |-> Authorization(opts),
   json |-> JsonBody(opts, prompt, n, size), status |-> "pending"]

EditsRequest(opts, form) ==
  [method |-> "POST", url |-> EditsURL,
   authorization |-> Authorization(opts),
   form |-> form, status |-> "pending"]

\* The pending request at the end of the log is answered: with the response
\* data when it resolves, with the error when it rejects.
Settle(log, status, answer) ==
  [log EXCEPT ![Len(log)] =
     [k \in DOMAIN @ \cup {"answer"} |->
        IF k = "status" THEN status
        ELSE IF k = "answer" THEN answer
        ELSE @[k]]]

\* Destructuring defaults of src/index.ts:59.
DefaultInputFiles(p) == IF Has(p, "inputFiles") THEN p.inputFiles ELSE <<>>
DefaultN(p) == IF Has(p, "n") THEN p.n ELSE 1
\* size = this.outputDimensionsSupported()[0]; undefined when the list is.
DefaultSize(opts, p) ==
  IF Has(p, "size") THEN Defined(p.size)
  ELSE IF outputDimensionsSupported(opts) = Undefined THEN Undefined
  ELSE Defined(outputDimensionsSupported(opts)[1][1])

\* The guard of src/index.ts:61.
GuardThrows(opts, n) == JsGreater(n, outputImagesMaxCountSupported(opts))

\* A branch that always takes the generations request.
UsesGenerationsAlways(inputFiles) == TRUE

\* The branch of src/index.ts:124.
UsesGenerations(inputFiles) == Len(inputFiles) = 0

(***************************************************************************)
(* Actions.                                                                *)
(***************************************************************************)
\* The call ends: it returns a value or throws.
Finish(c, loc, log, res) ==
  /\ pc' = [pc EXCEPT ![c] = "done"]
  /\ local' = [local EXCEPT ![c] = loc]
  /\ http' = [http EXCEPT ![c] = log]
  /\ result' = [result EXCEPT ![c] = res]

\* The call waits for the answer to the request it has just issued.
Await(c, where, loc, log) ==
  /\ pc' = [pc EXCEPT ![c] = where]
  /\ local' = [local EXCEPT ![c] = loc]
  /\ http' = [http EXCEPT ![c] = log]
  /\ UNCHANGED result

\* What the input file loop does when it stops (src/index.ts:156-182).
AfterAttach(c, loc, log, r) ==
  LET loc2 == [loc EXCEPT !.pos = r.pos, !.form = r.form] IN
  IF r.stop = "get"
  THEN Await(c, "awaitGet", loc2,
             Append(log, GetRequest(loc.inputFiles[r.pos])))
  ELSE IF r.stop = "post"
  THEN Await(c, "awaitEditPost", loc2,
             Append(log, EditsRequest(options, r.form)))
  ELSE Finish(c, loc2, log, Thrown(r.error))

\* generate (src/index.ts:49-66) and generateOrEditImage up to its first
\* await (src/index.ts:101-182).
Generate(c, p) ==
  /\ pc[c] = "idle"
  /\ args' = [args EXCEPT ![c] = p]
  /\ probe' = NoProbe
  /\ UNCHANGED <<options, sniff>>
  /\ LET inputFiles == DefaultInputFiles(p)
         size == DefaultSize(options, p)
         n == DefaultN(p)
     IN IF size = Undefined
        THEN Finish(c, NoLocal, <<>>, Thrown(IndexUndefinedError))
        ELSE LET loc == [inputFiles |-> inputFiles, n |-> n, size |-> size[1],
                         pos |-> 0, form |-> <<>>, last |-> 0,
                         rejected |-> FALSE]
             IN IF GuardThrows(options, n)
                THEN Finish(c, loc, <<>>, Thrown(MaxCountError(options)))
                ELSE IF UsesGenerations(inputFiles)
                THEN Await(c, "awaitGenPost", loc,
                           <<GenerationsRequest(options, p.prompt, n, size[1])>>)
                ELSE AfterAttach(c, loc, <<>>,
                       AttachFrom(inputFiles, 1,
                                  FormFields(options, p.prompt, n, size[1])))

\* axios.get resolves (src/index.ts:159-162) and the loop goes on.
GetResponseOk(c, data) ==
  /\ pc[c] = "awaitGet"
  /\ UNCHANGED <<options, probe, args, sniff>>
  /\ LET loc == local[c]
         form == Append(loc.form, FilePart(loc.pos, FetchedBuffer(data)))
     IN AfterAttach(c, loc, Settle(http[c], "ok", data),
                    AttachFrom(loc.inputFiles, loc.pos + 1, form))

\* axios.get rejects: nothing catches it (src/index.ts:159).
GetResponseFail(c, e) ==
  /\ pc[c] = "awaitGet"
  /\ UNCHANGED <<options, probe, args, sniff>>
  /\ Finish(c, local[c], Settle(http[c], "failed", e), Thrown(e))

\* The generations POST resolves (src/index.ts:131-142).
GenPostOk(c, data) ==
  /\ pc[c] = "awaitGenPost"
  /\ UNCHANGED <<options, probe, args, sniff>>
  /\ Finish(c, local[c], Settle(http[c], "ok", data),
            Returned([imageURLs |-> GenImageURLs(data)]))

\* The generations POST rejects: nothing catches it (src/index.ts:125).
GenPostFail(c, e) ==
  /\ pc[c] = "awaitGenPost"
  /\ UNCHANGED <<options, probe, args, sniff>>
  /\ Finish(c, local[c], Settle(http[c], "failed", e), Thrown(e))

\* The images for which the callback of map gets past Buffer.from.
RECURSIVE Sniffable(_)
Sniffable(images) ==
  IF images = <<>> THEN <<>>
  ELSE IF Has(Head(images), "b64_json")
  THEN <<Head(images)>> \o Sniffable(Tail(images))
  ELSE Sniffable(Tail(images))

\* One MIME sniff per image that has a b64_json, none of them complete.
StartSniffs(images) ==
  [i \in 1..Len(Sniffable(images)) |->
     [b64 |-> Sniffable(images)[i].b64_json, done |-> FALSE, url |-> <<>>]]

\* The edits POST resolves (src/index.ts:183-190): every callback of map runs
\* up to its await, starting the sniff of its image; Buffer.from throws in it
\* for an image without b64_json, which rejects the promise of that callback.
\* The call then waits at await Promise.all. A response without a data array
\* throws in the try block at once.
EditPostOk(c, data) ==
  /\ pc[c] = "awaitEditPost"
  /\ UNCHANGED <<options, probe, args>>
  /\ LET log == Settle(http[c], "ok", data) IN
     IF ~Has(data, "data")
     THEN /\ Finish(c, local[c], log, EditCatch(MapUndefinedError))
          /\ UNCHANGED sniff
     ELSE /\ Await(c, "awaitSniff",
                   [local[c] EXCEPT !.rejected =
                      \E i \in 1..Len(data.data) : ~Has(data.data[i], "b64_json")],
                   log)
          /\ sniff' = [sniff EXCEPT ![c] = StartSniffs(data.data)]

\* The edits POST rejects and the catch runs (src/index.ts:192-195).
EditPostFail(c, e) ==
  /\ pc[c] = "awaitEditPost"
  /\ UNCHANGED <<options, probe, args, sniff>>
  /\ Finish(c, local[c], Settle(http[c], "failed", e), EditCatch(e))

\* The list Promise.all resolves to: the results in the order of the promises.
PromiseAll(tasks) == [i \in 1..Len(tasks) |-> tasks[i].url]

\* A sniff completes (src/index.ts:187-188). Nothing holds a sniff back:
\* when a callback of map has thrown, Promise.all only stops waiting, and a
\* sniff in flight completes before the catch is reached or after the call
\* has returned, as the file-type promise settles.
SniffDone(c, i) ==
  /\ pc[c] \in {"awaitSniff", "done"}
  /\ i \in 1..Len(sniff[c])
  /\ ~sniff[c][i].done
  /\ sniff' = [sniff EXCEPT ![c][i] =
                 [b64 |-> @.b64, done |-> TRUE,
                  url |-> EditDataURL(guessMimeTypeByB64(@.b64), @.b64)]]
  /\ local' = [local EXCEPT ![c].last = IF pc[c] = "awaitSniff" THEN i ELSE @]
  /\ UNCHANGED <<options, probe, pc, args, http, result>>

\* await Promise.all resumes (src/index.ts:184-195): with the list of data
\* URLs once every sniff is complete, or in the catch when a callback of map
\* has thrown.
PromiseAllSettled(c) ==
  /\ pc[c] = "awaitSniff"
  /\ UNCHANGED <<options, probe, args, sniff>>
  /\ IF local[c].rejected
     THEN Finish(c, local[c], http[c], EditCatch(BufferFromUndefinedError))
     ELSE /\ \A j \in 1..Len(sniff[c]) : sniff[c][j].done
          /\ Finish(c, local[c], http[c],
                    Returned([imageURLs |-> PromiseAll(sniff[c])]))

\* The caller has the outcome and nothing of the call is in flight: the
\* call's frame is gone.
Return(c) ==
  /\ pc[c] = "done"
  /\ \A j \in 1..Len(sniff[c]) : sniff[c][j].done
  /\ pc' = [pc EXCEPT ![c] = "idle"]
  /\ args' = [args EXCEPT ![c] = NoArgs]
  /\ local' = [local EXCEPT ![c] = NoLocal]
  /\ http' = [http EXCEPT ![c] = <<>>]
  /\ sniff' = [sniff EXCEPT ![c] = <<>>]
  /\ result' = [result EXCEPT ![c] = NoResult]
  /\ UNCHANGED <<options, probe>>

\* validate() is called (src/index.ts:16-20).
Validate ==
  /\ probe' = [method |-> "validate", throws |-> validateThrows(options)]
  /\ probe' # probe
  /\ UNCHANGED <<options, pc, args, local, http, sniff, result>>

\* The three capability lookups are called (src/index.ts:22-47).
Capabilities ==
  /\ probe' = [method |-> "capabilities",
               maxCount |-> outputImagesMaxCountSupported(options),
               dimensions |-> outputDimensionsSupported(options),
               extensions |-> inputFileExtensionSupported(options)]
  /\ probe' # probe
  /\ UNCHANGED <<options, pc, args, local, http, sniff, result>>

InitOver(inputs) ==
  /\ options \in {Constructor(o) : o \in inputs}
  /\ probe = NoProbe
  /\ pc = [c \in AllCalls |-> "idle"]
  /\ args = [c \in AllCalls |-> NoArgs]
  /\ local = [c \in AllCalls |-> NoLocal]
  /\ http = [c \in AllCalls |-> <<>>]
  /\ sniff = [c \in AllCalls |-> <<>>]
  /\ result = [c \in AllCalls |-> NoResult]

\* One adapter, one generate call at a time, over the full input sets; the
\* synchronous methods are called between the calls.
Init == InitOver(CtorInputs)

Next ==
  \/ \E p \in Params : Generate(1, p)
  \/ \E d \in FetchBodies : GetResponseOk(1, d)
  \/ \E e \in AxiosErrors : GetResponseFail(1, e)
  \/ \E d \in Responses : GenPostOk(1, d)
  \/ \E e \in AxiosErrors : GenPostFail(1, e)
  \/ \E d \in Responses : EditPostOk(1, d)
  \/ \E e \in AxiosErrors : EditPostFail(1, e)
  \/ \E i \in 1..MaxItems : SniffDone(1, i)
  \/ PromiseAllSettled(1)
  \/ Return(1)
  \/ pc[1] = "idle" /\ Validate
  \/ pc[1] = "idle" /\ Capabilities

Spec == Init /\ [][Next]_vars

\* One adapter, MaxCalls generate calls interleaved at their await points.
InitConc == InitOver(CtorInputsSmall)

NextConc ==
  \/ \E c \in AllCalls, p \in ParamsSmall : Generate(c, p)
  \/ \E c \in AllCalls, d \in FetchBodiesSmall : GetResponseOk(c, d)
  \/ \E c \in AllCalls, e \in AxiosErrorsSmall : GetResponseFail(c, e)
  \/ \E c \in AllCalls, d \in ResponsesSmall : GenPostOk(c, d)
  \/ \E c \in AllCalls, e \in AxiosErrorsSmall : GenPostFail(c, e)
  \/ \E c \in AllCalls, d \in ResponsesSmall : EditPostOk(c, d)
  \/ \E c \in AllCalls, e \in AxiosErrorsSmall : EditPostFail(c, e)
  \/ \E c \in AllCalls, i \in 1..MaxItems : SniffDone(c, i)
  \/ \E c \in AllCalls : PromiseAllSettled(c)
  \/ \E c \in AllCalls : Return(c)
  \/ Validate
  \/ Capabilities

SpecConc == InitConc /\ [][NextConc]_vars

(***************************************************************************)
(* Vocabulary of the properties.                                           *)
(***************************************************************************)
Posts(log) == {i \in 1..Len(log) : log[i].method = "POST"}
Gets(log) == {i \in 1..Len(log) : log[i].method = "GET"}
Failed(log) == {i \in 1..Len(log) : log[i].status = "failed"}

SuppliesFiles(p) == Has(p, "inputFiles") /\ Len(p.inputFiles) > 0

IsHttp(u) == Len(u) >= 4 /\ <<u[1], u[2], u[3], u[4]>> = <<"h", "t", "t", "p">>
IsData(u) ==
  Len(u) >= 5 /\ <<u[1], u[2], u[3], u[4], u[5]>> = <<"d", "a", "t", "a", ":">>

\* The request goes to the endpoint that the presence of input files selects.
RightEndpoint(p, req) ==
  IF SuppliesFiles(p)
  THEN req.url = EditsURL /\ Has(req, "form") /\ ~Has(req, "json")
  ELSE req.url = GenerationsURL /\ Has(req, "json") /\ ~Has(req, "form")

FourFields == {"prompt", "model", "n", "size"}

FieldOfCall(c, key) ==
  IF key = "prompt" THEN Str(args[c].prompt)
  ELSE IF key = "model" THEN Str(options.model)
  ELSE IF key = "n" THEN Num(local[c].n)
  ELSE Str(local[c].size)

CarriesExtras(req) ==
  LET e == ExtraEntries(options) IN
  IF Has(req, "json")
  THEN \A j \in 1..Len(e) : Has(req.json, e[j].key) /\ req.json[e[j].key] = e[j].value
  ELSE \A j \in 1..Len(e) :
         \E q \in 1..Len(req.form) :
            /\ req.form[q].name = e[j].key
            /\ req.form[q].value = (IF Has(e[j].value, "num")
                                    THEN NumberToString(e[j].value.num)
                                    ELSE e[j].value.str)

\* The request carries the call's own value of the field named key.
CarriesField(c, req, key) ==
  IF Has(req, "json")
  THEN Has(req.json, key) /\ req.json[key] = FieldOfCall(c, key)
  ELSE \E q \in 1..Len(req.form) :
         /\ req.form[q].name = key
         /\ req.form[q].value = (IF key = "n" THEN NumberToString(local[c].n)
                                 ELSE FieldOfCall(c, key).str)

\* C1: every generate call ends by returning an object that holds either
\* imageURLs or error, never both and never neither, whatever went wrong.
C1_ResultObject ==
  \A c \in AllCalls :
    pc[c] = "done" =>
      /\ result[c].kind = "return"
      /\ Has(result[c].value, "imageURLs") # Has(result[c].value, "error")

\* C2 as stated: a finished call has sent exactly one POST, to the endpoint
\* its input files select, carrying prompt, model, n, size and every key of
\* extraParams.
C2_ExactlyOneRequest ==
  \A c \in AllCalls :
    pc[c] = "done" =>
      /\ Cardinality(Posts(http[c])) = 1
      /\ \A i \in Posts(http[c]) :
           /\ RightEndpoint(args[c], http[c][i])
           /\ \A key \in FourFields : CarriesField(c, http[c][i], key)
           /\ CarriesExtras(http[c][i])

\* C2 amended: a call sends at most one POST, to the endpoint its input
\* files select and never to the other; it has sent exactly one when it waits
\* for the provider or for the sniffs or has returned, and none only when it
\* threw. The request carries every key of extraParams; the multipart request
\* carries prompt, model, n and size, and the JSON request carries each of
\* them whose name is not a key of extraParams.
C2_AtMostOneRequest ==
  \A c \in AllCalls :
    pc[c] # "idle" =>
      /\ Cardinality(Posts(http[c])) <= 1
      /\ (pc[c] \in {"awaitGenPost", "awaitEditPost", "awaitSniff"}
            => Cardinality(Posts(http[c])) = 1)
      /\ (pc[c] = "done" /\ result[c].kind = "return"
            => Cardinality(Posts(http[c])) = 1)
      /\ (pc[c] = "done" /\ Posts(http[c]) = {} => result[c].kind = "throw")
      /\ \A i \in Posts(http[c]) :
           LET req == http[c][i] IN
           /\ RightEndpoint(args[c], req)
           /\ CarriesExtras(req)
           /\ \A key \in FourFields :
                (Has(req, "form") \/ key \notin ExtraKeys(options))
                  => CarriesField(c, req, key)
           /\ Has(req, "json") => DOMAIN req.json = FourFields \cup ExtraKeys(options)

\* Witness of C2: a generations request whose n was replaced by extraParams.
C2_Witness ==
  /\ pc[1] = "awaitGenPost"
  /\ "n" \in ExtraKeys(options)
  /\ local[1].n = 2
  /\ http[1][1].json.n = Num(20)
  /\ http[1][1].json.size = Str(local[1].size)

(***************************************************************************)
(* C3: normalisation on the generation path.                               *)
(***************************************************************************)
\* The items of the response that carry a url or a b64_json.
KeptItems(images) ==
  {i \in 1..Len(images) :
     \/ Has(images[i], "url") /\ images[i].url # <<>>
     \/ Has(images[i], "b64_json") /\ images[i].b64_json # <<>>}

\* C3: on the generation path the result lists, in response order, item.url
\* when present, else 'data:image/png;base64,' + item.b64_json when present,
\* dropping an item with neither; it is no longer than the response, holds no
\* null, and is empty when the response has no data array. (A property is
\* present when it is a non-empty string, which is what the code tests.)
C3_GenerationNormalised ==
  \A c \in AllCalls :
    (pc[c] = "done" /\ ~SuppliesFiles(args[c])
       /\ http[c] # <<>> /\ http[c][1].status = "ok") =>
      LET data == http[c][1].answer
          images == IF Has(data, "data") THEN data.data ELSE <<>>
          kept == KeptItems(images)
      IN /\ result[c].kind = "return"
         /\ DOMAIN result[c].value = {"imageURLs"}
         /\ LET urls == result[c].value.imageURLs IN
            /\ Len(urls) = Cardinality(kept)
            /\ Len(urls) <= Len(images)
            /\ \A j \in 1..Len(urls) : urls[j] # <<>>
            /\ (~Has(data, "data") => urls = <<>>)
            /\ \A i \in kept :
                 urls[Cardinality({j \in kept : j <= i})] =
                   (IF Has(images[i], "url") /\ images[i].url # <<>>
                    THEN images[i].url
                    ELSE <<"data:image/png;base64,">> \o images[i].b64_json)

\* Witness of C3: a response of two items, the first with an empty url and
\* no b64_json and the second with both, normalised to the url of the second.
C3_Witness ==
  /\ pc[1] = "done"
  /\ ~SuppliesFiles(args[1])
  /\ http[1] # <<>>
  /\ http[1][1].status = "ok"
  /\ Has(http[1][1].answer, "data")
  /\ http[1][1].answer.data = <<ItemNeither, ItemBoth>>
  /\ result[1] = Returned([imageURLs |-> << <<"https://img/1">> >>])

(***************************************************************************)
(* C4: normalisation on the edit path.                                     *)
(***************************************************************************)
ExpectedMime(b64) ==
  IF b64 = JpegB64 THEN <<"image/jpeg">>
  ELSE <<"application/octet-stream">>

EditImages(c) == http[c][Len(http[c])].answer.data

\* C4: on the edit path a successful response with k images yields exactly k
\* data URLs, the i-th being 'data:<mime>;base64,<b64_json of image i>' with
\* the sniffed type, or 'application/octet-stream' when it is not recognised;
\* a sniff was started for each of the k images, and the result is in
\* response order whatever order the sniffs complete in.
C4_EditNormalised ==
  \A c \in AllCalls :
    (pc[c] = "done" /\ SuppliesFiles(args[c]) /\ Posts(http[c]) # {}
       /\ http[c][Len(http[c])].status = "ok"
       /\ Has(http[c][Len(http[c])].answer, "data")) =>
      /\ result[c].kind = "return"
      /\ DOMAIN result[c].value = {"imageURLs"}
      /\ Len(sniff[c]) = Len(EditImages(c))
      /\ Len(result[c].value.imageURLs) = Len(EditImages(c))
      /\ \A i \in 1..Len(EditImages(c)) :
           /\ Has(EditImages(c)[i], "b64_json")
           /\ result[c].value.imageURLs[i] =
                <<"data:">> \o ExpectedMime(EditImages(c)[i].b64_json)
                \o <<";base64,">> \o EditImages(c)[i].b64_json

(***************************************************************************)
(* C5, C6: defaults and capability lookups.                                *)
(***************************************************************************)
\* C5: a call that omits n sends 1, one that omits inputFiles has none, one
\* that omits size sends the first entry of outputDimensionsSupported() for
\* the configured model, whatever the model; supplied values are sent
\* unchanged; the configured model is never missing.
C5_Defaults ==
  /\ Has(options, "model") /\ options.model # <<>>
  /\ \A c \in AllCalls :
       pc[c] # "idle" =>
         /\ ~(result[c].kind = "throw" /\ result[c].name = "TypeError"
                /\ http[c] = <<>> /\ local[c] = NoLocal)
         /\ local[c].n = (IF Has(args[c], "n") THEN args[c].n ELSE 1)
         /\ local[c].inputFiles =
              (IF Has(args[c], "inputFiles") THEN args[c].inputFiles ELSE <<>>)
         /\ IF Has(args[c], "size")
            THEN local[c].size = args[c].size
            ELSE /\ outputDimensionsSupported(options) # Undefined
                 /\ local[c].size = outputDimensionsSupported(options)[1][1]

\* C6: for every configured model outputImagesMaxCountSupported() is a
\* positive integer (10 for gpt-image-1 and dall-e-2, 1 for dall-e-3),
\* outputDimensionsSupported() a non-empty list and
\* inputFileExtensionSupported() a list; none is undefined.
C6_LookupsDefined ==
  probe.method = "capabilities" =>
    /\ probe.maxCount # Undefined
    /\ probe.maxCount[1] > 0
    /\ (options.model \in {GptImage1, DallE2} => probe.maxCount[1] = 10)
    /\ (options.model = DallE3 => probe.maxCount[1] = 1)
    /\ probe.dimensions # Undefined
    /\ Len(probe.dimensions[1]) > 0
    /\ probe.extensions # Undefined
    /\ (options.model = DallE2 => probe.extensions[1] = << <<"png">> >>)
    /\ (options.model \in {GptImage1, DallE3}
          => probe.extensions[1] = << <<"png">>, <<"jpg">>, <<"jpeg">> >>)

(***************************************************************************)
(* C7: no retry.                                                           *)
(***************************************************************************)
\* The failure e of a request is what the caller gets: thrown, or returned as
\* the error string that starts with its message.
FailurePassed(c, e) ==
  \/ /\ result[c].kind = "throw"
     /\ result[c].message = e.message
  \/ /\ result[c].kind = "return"
     /\ DOMAIN result[c].value = {"error"}
     /\ Len(result[c].value.error) > Len(e.message)
     /\ SubSeq(result[c].value.error, 2, 1 + Len(e.message)) = e.message

\* C7: a call sends at most one POST to the provider, and a failed POST or a
\* failed fetch of an input file is the last request of its call: the call
\* has ended and the failure has gone to the caller.
C7_NoRetry ==
  \A c \in AllCalls :
    /\ Cardinality(Posts(http[c])) <= 1
    /\ \A i \in Failed(http[c]) :
         /\ i = Len(http[c])
         /\ pc[c] = "done"
         /\ FailurePassed(c, http[c][i].answer)

(***************************************************************************)
(* C8: the batch-count guard.                                              *)
(***************************************************************************)
\* The values of n that a request carries.
CarriedN(req) ==
  IF Has(req, "json") THEN {req.json.n.num}
  ELSE {k \in 0..20 :
          \E q \in 1..Len(req.form) :
             req.form[q].name = "n" /\ req.form[q].value = NumberToString(k)}

\* C8: a call whose n exceeds outputImagesMaxCountSupported() throws the
\* 'maximum number of images' error before any HTTP request, so every request
\* that reaches the provider carries an n no greater than the maximum of the
\* configured model.
C8_BatchGuard ==
  \A c \in AllCalls :
    /\ (pc[c] # "idle" /\ local[c] # NoLocal
          /\ JsGreater(local[c].n, outputImagesMaxCountSupported(options))) =>
         /\ pc[c] = "done"
         /\ http[c] = <<>>
         /\ result[c] = Thrown(MaxCountError(options))
    /\ \A i \in Posts(http[c]) :
         /\ outputImagesMaxCountSupported(options) # Undefined
         /\ \A k \in CarriedN(http[c][i]) :
              k <= outputImagesMaxCountSupported(options)[1]

(***************************************************************************)
(* C9: the input files of the edit path.                                   *)
(***************************************************************************)
RECURSIVE ImageParts(_)
ImageParts(form) ==
  IF form = <<>> THEN <<>>
  ELSE IF Head(form).name = "image[]"
  THEN <<Head(form)>> \o ImageParts(Tail(form))
  ELSE ImageParts(Tail(form))

HttpEntries(files, upTo) == {i \in 1..upTo : IsHttp(files[i])}

UnsupportedPrefix ==
  "Unsupported file URL for attachment, it should be an absolute URL strating with http or a data URL, but got: "

\* C9: on the edit path the files are handled one at a time in list order,
\* all before the edits POST: one GET per entry starting with 'http', no
\* request for an entry starting with 'data:', an 'Unsupported file URL' throw
\* for any other entry; entry i becomes the i-th 'image[]' part, named
\* image_<i>.png counting from 1; with an unsupported entry or a failed fetch
\* the edits POST is never sent.
C9_InputFiles ==
  \A c \in AllCalls :
    (pc[c] # "idle" /\ local[c].inputFiles # <<>>) =>
      LET files == local[c].inputFiles
          log == http[c]
      IN /\ \A i \in 1..Len(log) : log[i].status = "pending" => i = Len(log)
         /\ \A i \in Gets(log), j \in Posts(log) : i < j /\ log[i].status = "ok"
         /\ \A j \in Posts(log) : log[j].url = EditsURL
         /\ Cardinality(Gets(log)) <= Cardinality(HttpEntries(files, Len(files)))
         /\ \A k \in Gets(log) :
              \E i \in 1..Len(files) :
                 /\ IsHttp(files[i])
                 /\ Cardinality(HttpEntries(files, i)) = k
                 /\ log[k].url = files[i]
         /\ ((\E i \in 1..Len(files) : ~IsHttp(files[i]) /\ ~IsData(files[i]))
               => /\ Posts(log) = {}
                  /\ pc[c] = "done" => result[c].kind = "throw")
         /\ (pc[c] = "done" /\ result[c].kind = "throw"
               /\ Head(result[c].message) = UnsupportedPrefix)
               => \E i \in 1..Len(files) :
                     /\ ~IsHttp(files[i]) /\ ~IsData(files[i])
                     /\ \A j \in 1..(i - 1) : IsHttp(files[j]) \/ IsData(files[j])
                     /\ result[c].message = <<UnsupportedPrefix>> \o files[i]
         /\ (Failed(log) \cap Gets(log) # {} => Posts(log) = {})
         /\ \A j \in Posts(log) :
              LET parts == ImageParts(log[j].form) IN
              /\ Len(parts) = Len(files)
              /\ Cardinality(Gets(log)) = Cardinality(HttpEntries(files, Len(files)))
              /\ \A q \in 1..Len(log[j].form) :
                   log[j].form[q].name = "image[]" <=> q > Len(log[j].form) - Len(files)
              /\ \A i \in 1..Len(files) :
                   /\ parts[i].filename = <<"image_", Digits[i + 1], ".png">>
                   /\ parts[i].contentType = <<"image/png">>
                   /\ parts[i].buffer =
                        (IF IsHttp(files[i])
                         THEN log[Cardinality(HttpEntries(files, i))].answer
                         ELSE <<65, 66, 67>>)

\* Witness of C9: a data URL followed by an http URL, both attached, the
\* edits POST sent after the one GET.
C9_Witness ==
  /\ pc[1] = "awaitEditPost"
  /\ local[1].inputFiles = <<DataFile, HttpFile>>
  /\ Len(http[1]) = 2
  /\ http[1][1].method = "GET"
  /\ http[1][1].answer = <<65, 66>>
  /\ ImageParts(http[1][2].form) =
       << [name |-> "image[]", buffer |-> <<65, 66, 67>>,
           filename |-> <<"image_", "1", ".png">>, contentType |-> <<"image/png">>],
          [name |-> "image[]", buffer |-> <<65, 66>>,
           filename |-> <<"image_", "2", ".png">>, contentType |-> <<"image/png">>] >>

(***************************************************************************)
(* C10: the adapter is stateless after construction.                       *)
(***************************************************************************)
\* Every POST of every call is the request of that call alone: built from the
\* call's own parameters and the options, and equal to the request of any
\* other call with the same parameters.
RequestsAsAlone ==
  \A c \in AllCalls :
    \A i \in Posts(http[c]) :
      LET req == http[c][i] IN
      /\ RightEndpoint(args[c], req)
      /\ CarriesExtras(req)
      /\ \A key \in FourFields :
           (Has(req, "form") \/ key \notin ExtraKeys(options))
             => CarriesField(c, req, key)
      /\ \A d \in AllCalls :
           \A j \in Posts(http[d]) :
             (args[d] = args[c] /\ Has(req, "json")) => http[d][j].json = req.json

\* C10: no step changes options, options.model is never empty, and calls
\* interleaved at their await points each build the request they would build
\* alone.
C10_Stateless ==
  /\ [](Has(options, "model") /\ options.model # <<>> /\ RequestsAsAlone)
  /\ [][options' = options]_vars

\* Witness of C10: two calls in flight on one adapter, one waiting for the
\* edits POST it sent after its fetch, the other for its generations POST,
\* while validate has been called.
C10_Witness ==
  /\ pc[1] = "awaitEditPost"
  /\ pc[2] = "awaitGenPost"
  /\ probe.method = "validate"
  /\ args[1] # args[2]

====
